---- MODULE Spec2Model ----
(***************************************************************************)
(* The crop-aggregate backend of pdf-ext: save_crop (validate, upload to   *)
(* object storage, locked read-modify-write of the per-tuple row, commit,  *)
(* verification query), upload_to_s3 (second-granularity key) and the two  *)
(* read endpoints get_images and get_images_by_category.                   *)
(*                                                                         *)
(* Each save-crop request is a process with a program counter; the steps   *)
(* are cut where the handler touches shared state (the bucket, the table,  *)
(* the row lock), so that every interleaving of concurrent requests is     *)
(* explored.  The relational engine is modelled by what the code asks of   *)
(* it: with_for_update() locks the row the query returns (and nothing when *)
(* no row matches), commit publishes the pending write and releases the    *)
(* transaction's locks, rollback discards the pending write and releases   *)
(* them.  A query without ORDER BY returns the matching row of lowest id.  *)
(***************************************************************************)
EXTENDS Integers, Sequences, FiniteSets, TLC

\* ---------------------------------------------------------------- bounds
NumRequests == 2      \* save-crop requests in one behaviour
MaxTime == 1          \* the uploads happen within seconds 0..MaxTime

Requests == 1..NumRequests
NoRequest == 0
NoRow == 0

\* ---------------------------------------------------------------- inputs
valid_categories == {"equations", "diagrams", "tables", "others"}

\* category form values tried: two valid ones and one outside the whitelist
CategoryInputs == {"tables", "others", "invalid"}

\* (class_id, subject_id, course_id, module_id) values tried
Tuples == {<<1, 2, 3, 4>>, <<1, 2, 3, 5>>}

\* folder form values tried
Folders == {"f1", "f2"}

\* file.size values tried (0 is an empty upload)
FileSizes == {0, 1}

\* pdf_name form values tried, each the sequence of its dot-separated parts
PdfNames == {<<"lecture1", "pdf">>, <<"lecture1", "txt">>, <<"pdf", "bak">>}

S3_BUCKET_NAME == "bucket"
NoUrl == <<>>

VARIABLES
    now,                \* time.time() in whole seconds, as of the latest upload_to_s3 call
    bucket,             \* object storage: the keys that hold an object
    table,              \* pdf_crop_images1: sequence of rows, id = index
    locks,              \* locks[i]: the request holding row i's lock, or NoRequest
    pc,                 \* position of each save_crop request
    category,           \* form field of each request
    tuple,              \* (class_id, subject_id, course_id, module_id) of each request
    s3_url,             \* local s3_url
    existing_record,    \* local existing_record (row id) or NoRow
    updated_image_urls, \* the session's pending image_urls value, or <<>>
    status,             \* HTTP status of the response, 0 while running
    detail,             \* HTTPException detail of the response
    s3_calls,           \* number of upload_to_s3 invocations of the request
    db_opened,          \* whether the request reached SessionLocal() and queried
    written             \* row id the request's commit wrote, or NoRow

vars == <<now, bucket, table, locks, pc, category, tuple, s3_url, existing_record,
          updated_image_urls, status, detail, s3_calls, db_opened, written>>

\* ------------------------------------------------------- pure functions
get_default_image_urls_structure ==
    [c \in valid_categories |-> <<>>]

\* mimetypes.guess_extension(mimetypes.guess_type(name)[0]) or '.webp'
GuessExtension(original_filename) ==
    IF original_filename.suffix = "png" THEN ".png"
    ELSE IF original_filename.suffix = "jpg" THEN ".jpg"
    ELSE ".webp"

\* f"file_{int(time.time())}{file_extension}"
NewFileName(t, original_filename) ==
    [ts |-> t, ext |-> GuessExtension(original_filename)]

\* f"https://{bucket_name}.s3.amazonaws.com/{new_file_name}"
S3Url(bucket_name, new_file_name) ==
    <<bucket_name, new_file_name>>

\* f"{folder}/crop_{category}_{datetime.now()...}.png"
OriginalFilename(folder, cat, t) ==
    [folder |-> folder, category |-> cat, stamp |-> t, suffix |-> "png"]

\* the filter on the four taxonomy columns
MatchingRows(t) ==
    {i \in 1..Len(table) : table[i].tuple = t}

\* .first(): the matching row of lowest id, NoRow when none matches
First(t) ==
    IF MatchingRows(t) = {} THEN NoRow
    ELSE CHOOSE i \in MatchingRows(t) : \A j \in MatchingRows(t) : i <= j

Range(s) == {s[i] : i \in 1..Len(s)}

RECURSIVE SumLen(_, _)
SumLen(f, S) ==
    IF S = {} THEN 0
    ELSE LET k == CHOOSE k \in S : TRUE
         IN Len(f[k]) + SumLen(f, S \ {k})

\* ------------------------------------------------------- read endpoints
ExistingRowShape == {"image_urls", "created_at", "updated_at", "total_images"}

get_images(t) ==
    LET record == First(t) IN
    IF record = NoRow
    THEN [status |-> 200, body |-> get_default_image_urls_structure]
    ELSE LET image_urls == IF DOMAIN table[record].image_urls = {}
                           THEN get_default_image_urls_structure
                           ELSE table[record].image_urls
         IN [status |-> 200,
             body |-> [image_urls |-> image_urls,
                       created_at |-> "datetime",
                       updated_at |-> "datetime",
                       total_images |-> SumLen(image_urls, DOMAIN image_urls)]]

get_images_by_category(t, c) ==
    IF c \notin valid_categories
    THEN [status |-> 422, body |-> [detail |-> "Invalid category"]]
    ELSE LET record == First(t) IN
         IF record = NoRow \/ DOMAIN table[record].image_urls = {}
         THEN [status |-> 200, body |-> [urls |-> <<>>]]
         ELSE LET urls == IF c \in DOMAIN table[record].image_urls
                          THEN table[record].image_urls[c] ELSE <<>>
              IN [status |-> 200, body |-> [urls |-> urls, count |-> Len(urls)]]

\* ---------------------------------------------------------------- Init
\* The table and the bucket outlive the process (create_all keeps an existing
\* table).  The deployment modelled has saved one crop before: the first tuple
\* has its row, the second tuple has never been seen.
SeedKey == [ts |-> -1, ext |-> ".png"]

SeedBucket == {SeedKey}

SeedTable ==
    << [tuple |-> <<1, 2, 3, 4>>,
        image_urls |-> [get_default_image_urls_structure EXCEPT
                           !["tables"] = <<S3Url(S3_BUCKET_NAME, SeedKey)>>]] >>

Init ==
    /\ now = 0
    /\ bucket = SeedBucket
    /\ table = SeedTable
    /\ locks = [i \in 1..Len(SeedTable) |-> NoRequest]
    /\ pc = [r \in Requests |-> "idle"]
    /\ category = [r \in Requests |-> "none"]
    /\ tuple = [r \in Requests |-> <<>>]
    /\ s3_url = [r \in Requests |-> NoUrl]
    /\ existing_record = [r \in Requests |-> NoRow]
    /\ updated_image_urls = [r \in Requests |-> <<>>]
    /\ status = [r \in Requests |-> 0]
    /\ detail = [r \in Requests |-> "none"]
    /\ s3_calls = [r \in Requests |-> 0]
    /\ db_opened = [r \in Requests |-> FALSE]
    /\ written = [r \in Requests |-> NoRow]

\* ------------------------------------------------------------ save_crop
\* The request arrives; requests are numbered in order of arrival.
Arrives(r) ==
    /\ pc[r] = "idle"
    /\ \A q \in Requests : q < r => pc[q] # "idle"

\* pdf_name.endswith('.pdf')
EndsWithPdf(pdf_name) == pdf_name[Len(pdf_name)] = "pdf"

CategoryAlwaysOk(c) == TRUE

\* category in valid_categories
CategoryOk(c) == c \in valid_categories

\* Lines 158-168: the three form checks, in the code's order; the first that
\* fails ends the request with 422.
Validate(r) ==
    /\ Arrives(r)
    /\ \E c \in CategoryInputs, t \in Tuples, size \in FileSizes, pdf_name \in PdfNames :
         /\ category' = [category EXCEPT ![r] = c]
         /\ tuple' = [tuple EXCEPT ![r] = t]
         /\ IF ~CategoryOk(c)
            THEN /\ pc' = [pc EXCEPT ![r] = "done"]
                 /\ status' = [status EXCEPT ![r] = 422]
                 /\ detail' = [detail EXCEPT ![r] = "Invalid category"]
            ELSE IF size = 0
            THEN /\ pc' = [pc EXCEPT ![r] = "done"]
                 /\ status' = [status EXCEPT ![r] = 422]
                 /\ detail' = [detail EXCEPT ![r] = "Uploaded file is empty"]
            ELSE IF ~EndsWithPdf(pdf_name)
            THEN /\ pc' = [pc EXCEPT ![r] = "done"]
                 /\ status' = [status EXCEPT ![r] = 422]
                 /\ detail' = [detail EXCEPT ![r] = "Invalid PDF name"]
            ELSE /\ pc' = [pc EXCEPT ![r] = "upload"]
                 /\ UNCHANGED <<status, detail>>
    /\ UNCHANGED <<now, bucket, table, locks, s3_url, existing_record,
                   updated_image_urls, s3_calls, db_opened, written>>

\* upload_to_s3 succeeds.  The clock is read here and nowhere else: it shows the
\* second t of the call, not before the second of the previous call.  The
\* bytes are stored under file_{t}{ext}.  The
\* bucket holds one object per key, so an upload under a key already present
\* replaces that object and the number of stored objects does not grow.
UploadOk(r) ==
    /\ pc[r] = "upload"
    /\ \E folder \in Folders, t \in now..MaxTime :
         LET new_file_name ==
                 NewFileName(t, OriginalFilename(folder, category[r], t))
         IN /\ bucket' = bucket \cup {new_file_name}
            /\ s3_url' = [s3_url EXCEPT ![r] = S3Url(S3_BUCKET_NAME, new_file_name)]
            /\ now' = t
    /\ s3_calls' = [s3_calls EXCEPT ![r] = @ + 1]
    /\ pc' = [pc EXCEPT ![r] = "query"]
    /\ UNCHANGED <<table, locks, category, tuple, existing_record,
                   updated_image_urls, status, detail, db_opened, written>>

UploadFailIgnored(r) ==
    /\ pc[r] = "upload"
    /\ s3_calls' = [s3_calls EXCEPT ![r] = @ + 1]
    /\ pc' = [pc EXCEPT ![r] = "query"]
    /\ UNCHANGED <<now, bucket, table, locks, category, tuple, s3_url, existing_record,
                   updated_image_urls, status, detail, db_opened, written>>

\* upload_to_s3 raises: lines 180-182 turn it into a 500 before SessionLocal().
UploadFail(r) ==
    /\ pc[r] = "upload"
    /\ s3_calls' = [s3_calls EXCEPT ![r] = @ + 1]
    /\ pc' = [pc EXCEPT ![r] = "done"]
    /\ status' = [status EXCEPT ![r] = 500]
    /\ detail' = [detail EXCEPT ![r] = "S3 upload error"]
    /\ UNCHANGED <<now, bucket, table, locks, category, tuple, s3_url, existing_record,
                   updated_image_urls, db_opened, written>>

no_for_update(i) == TRUE

\* with_for_update(): the query returns row i only once no other transaction
\* holds its lock.
with_for_update(i) == locks[i] = NoRequest

\* the locks of request r's transaction are released (commit or rollback)
Released(r) ==
    [i \in 1..Len(locks) |-> IF locks[i] = r THEN NoRequest ELSE locks[i]]

\* Lines 184-192 and, when no row matches, 225-239: the locked query.  A row
\* found is locked; none found, the new entry is built and added to the session.
LockedQuery(r) ==
    /\ pc[r] = "query"
    /\ db_opened' = [db_opened EXCEPT ![r] = TRUE]
    /\ LET found == First(tuple[r]) IN
       IF found = NoRow
       THEN /\ existing_record' = [existing_record EXCEPT ![r] = NoRow]
            /\ IF category[r] \in DOMAIN get_default_image_urls_structure
               THEN /\ updated_image_urls' = [updated_image_urls EXCEPT ![r] =
                          [get_default_image_urls_structure EXCEPT
                              ![category[r]] = Append(@, s3_url[r])]]
                    /\ pc' = [pc EXCEPT ![r] = "commit"]
                    /\ UNCHANGED <<status, detail>>
               ELSE \* KeyError inside the guarded block: rollback, 500
                    /\ updated_image_urls' = [updated_image_urls EXCEPT ![r] = <<>>]
                    /\ pc' = [pc EXCEPT ![r] = "done"]
                    /\ status' = [status EXCEPT ![r] = 500]
                    /\ detail' = [detail EXCEPT ![r] = "Database error"]
            /\ UNCHANGED locks
       ELSE /\ with_for_update(found)
            /\ locks' = [locks EXCEPT ![found] = r]
            /\ existing_record' = [existing_record EXCEPT ![r] = found]
            /\ pc' = [pc EXCEPT ![r] = "refresh"]
            /\ UNCHANGED <<updated_image_urls, status, detail>>
    /\ UNCHANGED <<now, bucket, table, category, tuple, s3_url, s3_calls, written>>

RefreshPrepend(r) ==
    /\ pc[r] = "refresh"
    /\ LET stored == table[existing_record[r]].image_urls
       IN updated_image_urls' = [updated_image_urls EXCEPT ![r] =
              [stored EXCEPT ![category[r]] = <<s3_url[r]>> \o @]]
    /\ pc' = [pc EXCEPT ![r] = "commit"]
    /\ UNCHANGED <<now, bucket, table, locks, category, tuple, s3_url, existing_record,
                   status, detail, s3_calls, db_opened, written>>

\* Lines 198-223: refresh the row, copy its image_urls, append the URL.
RefreshAppend(r) ==
    /\ pc[r] = "refresh"
    /\ LET stored == table[existing_record[r]].image_urls
           current_image_urls == IF DOMAIN stored = {}
                                 THEN get_default_image_urls_structure ELSE stored
           with_key == IF category[r] \in DOMAIN current_image_urls
                       THEN current_image_urls
                       ELSE [c \in DOMAIN current_image_urls \cup {category[r]} |->
                               IF c = category[r] THEN <<>> ELSE current_image_urls[c]]
       IN updated_image_urls' = [updated_image_urls EXCEPT ![r] =
              [with_key EXCEPT ![category[r]] = Append(@, s3_url[r])]]
    /\ pc' = [pc EXCEPT ![r] = "commit"]
    /\ UNCHANGED <<now, bucket, table, locks, category, tuple, s3_url, existing_record,
                   status, detail, s3_calls, db_opened, written>>

\* Lines 243-244: flush and commit.  The UPDATE writes the whole image_urls
\* value of the session; the INSERT adds a row; the locks are released.
Commit(r) ==
    /\ pc[r] = "commit"
    /\ IF existing_record[r] # NoRow
       THEN /\ table' = [table EXCEPT ![existing_record[r]].image_urls =
                             updated_image_urls[r]]
            /\ locks' = Released(r)
            /\ written' = [written EXCEPT ![r] = existing_record[r]]
       ELSE /\ table' = Append(table, [tuple |-> tuple[r],
                                       image_urls |-> updated_image_urls[r]])
            /\ locks' = Append(Released(r), NoRequest)
            /\ written' = [written EXCEPT ![r] = Len(table) + 1]
    /\ updated_image_urls' = [updated_image_urls EXCEPT ![r] = <<>>]
    /\ pc' = [pc EXCEPT ![r] = "verify"]
    /\ UNCHANGED <<now, bucket, category, tuple, s3_url, existing_record,
                   status, detail, s3_calls, db_opened>>

\* Lines 247-272: the verification query only logs; the request answers success
\* with s3_url in the body.  The handler's other locals end with it.
Verify(r) ==
    /\ pc[r] = "verify"
    /\ pc' = [pc EXCEPT ![r] = "done"]
    /\ status' = [status EXCEPT ![r] = 200]
    /\ detail' = [detail EXCEPT ![r] = "success"]
    /\ existing_record' = [existing_record EXCEPT ![r] = NoRow]
    /\ UNCHANGED <<now, bucket, table, locks, category, tuple, s3_url,
                   updated_image_urls, s3_calls, db_opened, written>>

\* Lines 260-266: any statement of the guarded block raises (the locked query,
\* the refresh, the flush or commit, the verification query).  db.rollback()
\* discards what is pending and releases the locks; what is committed stays.
\* The 500 response carries no URL and the handler's locals end with it.
DbError(r) ==
    /\ pc[r] \in {"query", "refresh", "commit", "verify"}
    /\ db_opened' = [db_opened EXCEPT ![r] = TRUE]
    /\ locks' = Released(r)
    /\ updated_image_urls' = [updated_image_urls EXCEPT ![r] = <<>>]
    /\ pc' = [pc EXCEPT ![r] = "done"]
    /\ status' = [status EXCEPT ![r] = 500]
    /\ detail' = [detail EXCEPT ![r] = "Database error"]
    /\ s3_url' = [s3_url EXCEPT ![r] = NoUrl]
    /\ existing_record' = [existing_record EXCEPT ![r] = NoRow]
    /\ UNCHANGED <<now, bucket, table, category, tuple, s3_calls, written>>

Step(r) ==
    \/ UploadOk(r)
    \/ UploadFail(r)
    \/ LockedQuery(r)
    \/ RefreshAppend(r)
    \/ Commit(r)
    \/ Verify(r)
    \/ DbError(r)

Next ==
    \/ \E r \in Requests : Validate(r)
    \/ \E r \in Requests : Step(r)

Spec == Init /\ [][Next]_vars

\* Requests one after another: a request arrives only when no other is running.
Quiescent == \A q \in Requests : pc[q] \in {"idle", "done"}

ValidateAlone(r) == Quiescent /\ Validate(r)

SeqNext ==
    \/ \E r \in Requests : ValidateAlone(r)
    \/ \E r \in Requests : Step(r)

SeqSpec == Init /\ [][SeqNext]_vars

\* ================================================================ claims
IsPrefix(s, t) ==
    /\ Len(s) <= Len(t)
    /\ \A k \in 1..Len(s) : s[k] = t[k]

\* what the table held for (t, c) before the first request
InitialUrls(t, c) ==
    IF \E i \in 1..Len(SeedTable) : SeedTable[i].tuple = t
    THEN SeedTable[CHOOSE i \in 1..Len(SeedTable) : SeedTable[i].tuple = t].image_urls[c]
    ELSE <<>>

InitialLen(i, c) ==
    IF i <= Len(SeedTable) THEN Len(SeedTable[i].image_urls[c]) ELSE 0

\* the URLs of the requests that answered success for (t, c), in request order
SuccessfulUrls(t, c) ==
    LET Succeeded(r) == status[r] = 200 /\ tuple[r] = t /\ category[r] = c
        ids == SelectSeq([r \in Requests |-> r], Succeeded)
    IN [k \in 1..Len(ids) |-> s3_url[ids[k]]]

\* C1: with requests run one after another, whenever no request is running,
\* get-images-by-category(t, c) lists exactly the URLs of the successful
\* save-crop requests for (t, c) (after what the row held before), in request
\* order, and its count, when present, is their number.
C1_CountIsSuccessfulAppends ==
    Quiescent =>
        \A t \in Tuples, c \in valid_categories :
            LET body == get_images_by_category(t, c).body
                expected == InitialUrls(t, c) \o SuccessfulUrls(t, c)
            IN /\ body.urls = expected
               /\ "count" \in DOMAIN body => body.count = Len(expected)

\* C2: appends to a row are never lost.  No two requests are between their
\* locked query and their commit on the same row; every category list of every
\* row is as long as the number of commits made to it; and the URL of every
\* successful request is in the list of the row its commit wrote.
C2_NoLostUpdate ==
    /\ \A r, q \in Requests :
         (/\ r # q
          /\ pc[r] \in {"refresh", "commit"} /\ existing_record[r] # NoRow
          /\ pc[q] \in {"refresh", "commit"} /\ existing_record[q] # NoRow)
         => existing_record[r] # existing_record[q]
    /\ \A i \in 1..Len(table), c \in valid_categories :
         Len(table[i].image_urls[c]) =
            InitialLen(i, c)
            + Cardinality({r \in Requests : written[r] = i /\ category[r] = c})
    /\ \A r \in Requests :
         status[r] = 200 =>
            s3_url[r] \in Range(table[written[r]].image_urls[category[r]])

\* Two requests appended to the row that existed from the start, for the same
\* category, and both succeeded.  They overlapped: r arrived before q, yet q's
\* URL comes before r's in the list, so q ran its whole locked section while r
\* was under way.
C2_Witness ==
    \E r, q \in Requests :
        /\ r < q
        /\ status[r] = 200 /\ status[q] = 200
        /\ written[r] = 1 /\ written[q] = 1
        /\ category[r] = category[q]
        /\ s3_url[r] # s3_url[q]
        /\ LET urls == table[1].image_urls[category[r]]
           IN \E k, l \in 1..Len(urls) :
                 k < l /\ urls[k] = s3_url[q] /\ urls[l] = s3_url[r]

\* C3: the table never holds two rows for one taxonomy tuple.
C3_OneRowPerTuple ==
    \A i, j \in 1..Len(table) : table[i].tuple = table[j].tuple => i = j

\* C4: a request whose category is outside the whitelist ends with 422 and has
\* invoked the storage adapter zero times, opened no session, written no row.
C4_InvalidCategoryNoSideEffect ==
    \A r \in Requests :
        (pc[r] # "idle" /\ category[r] \notin valid_categories) =>
            /\ pc[r] = "done"
            /\ status[r] = 422
            /\ s3_calls[r] = 0
            /\ s3_url[r] = NoUrl
            /\ ~db_opened[r]
            /\ written[r] = NoRow

C4_Witness ==
    \E r, q \in Requests :
        /\ category[r] = "invalid" /\ status[r] = 422
        /\ status[q] = 200

\* C5: get-images for a tuple without a row answers with the keys of the
\* response for an existing row, the four categories empty, total_images 0.
C5_SameShapeWithoutRow ==
    \A t \in Tuples :
        First(t) = NoRow =>
            LET resp == get_images(t) IN
            /\ resp.status = 200
            /\ DOMAIN resp.body = ExistingRowShape
            /\ \A c \in valid_categories : resp.body.image_urls[c] = <<>>
            /\ resp.body.total_images = 0

\* C6: a request that ended with 500 'Database error' has written no row.
C6_DbErrorWritesNothing ==
    \A r \in Requests :
        (status[r] = 500 /\ detail[r] = "Database error") => written[r] = NoRow

\* C7: a request whose upload failed ends with 500 and never opens a session,
\* holds no lock and writes no row; whoever is in the guarded database block
\* holds the URL of its own successful upload.
C7_UploadFailureBeforeDatabase ==
    \A r \in Requests :
        /\ (s3_calls[r] > 0 /\ s3_url[r] = NoUrl /\ detail[r] # "Database error") =>
              /\ pc[r] = "done"
              /\ status[r] = 500
              /\ detail[r] = "S3 upload error"
              /\ ~db_opened[r]
              /\ written[r] = NoRow
              /\ existing_record[r] = NoRow
              /\ \A i \in 1..Len(locks) : locks[i] # r
        /\ (db_opened[r] \/ pc[r] \in {"query", "refresh", "commit", "verify"}) =>
              /\ s3_calls[r] = 1
              /\ detail[r] # "S3 upload error"
              /\ pc[r] # "done" => s3_url[r] # NoUrl

C7_Witness ==
    \E r, q \in Requests :
        /\ status[r] = 500 /\ detail[r] = "S3 upload error"
        /\ written[q] # NoRow

\* the requests whose upload_to_s3 call succeeded
Uploaded == {r \in Requests : s3_calls[r] > 0 /\ detail[r] # "S3 upload error"}

\* C8: every successful upload is stored under a key of its own: the bucket
\* holds one object per successful upload and no two requests share a URL.
C8_KeysNeverCollide ==
    /\ Cardinality(bucket) = Cardinality(SeedBucket) + Cardinality(Uploaded)
    /\ \A r, q \in Requests :
         (r # q /\ s3_url[r] # NoUrl /\ s3_url[q] # NoUrl) => s3_url[r] # s3_url[q]

\* C9: in every step, every row keeps its tuple and each of its category
\* lists before the step is a prefix of the list after it; no row disappears.
C9_AppendOnly ==
    [][ /\ Len(table') >= Len(table)
        /\ \A i \in 1..Len(table) :
             /\ table'[i].tuple = table[i].tuple
             /\ \A c \in DOMAIN table[i].image_urls :
                  /\ c \in DOMAIN table'[i].image_urls
                  /\ IsPrefix(table[i].image_urls[c], table'[i].image_urls[c]) ]_vars

\* A row has grown past its first URL while a request failed in the database
\* block and another one succeeded.
C9_Witness ==
    /\ \E i \in 1..Len(table), c \in valid_categories : Len(table[i].image_urls[c]) >= 2
    /\ \E r \in Requests : status[r] = 500 /\ detail[r] = "Database error"
    /\ \E r \in Requests : status[r] = 200

\* C10: the URL of every request that answered success is in what
\* get-images-by-category and get-images return for its tuple and category.
C10_SuccessIsVisible ==
    \A r \in Requests :
        status[r] = 200 =>
            /\ s3_url[r] \in
                  Range(get_images_by_category(tuple[r], category[r]).body.urls)
            /\ s3_url[r] \in
                  Range(get_images(tuple[r]).body.image_urls[category[r]])

====
